---- MODULE Spec2Model ----
(***************************************************************************)
(* mq: a command line tool for POSIX message queues (src/src/mq.c).        *)
(*                                                                         *)
(* The model has three parts:                                              *)
(*   - the kernel's named queue (exists, attr, q) with the semantics of    *)
(*     mq_open / mq_send / mq_receive / mq_unlink / poll;                  *)
(*   - one mq process (args, pc and the locals of the cmd_* functions),    *)
(*     stepping from system call to system call;                           *)
(*   - its output: the stdio buffer of printf (stdoutBuf), the bytes that  *)
(*     reached file descriptor 1 (out) and the diagnostics on stderr (err).*)
(* Other processes act on the queue: producers through EnvSend, another   *)
(* consumer through CompetingConsumer.                                     *)
(* Variables cli, cur, sent, handed, opens, closes, failed, partial and    *)
(* mark are history variables: they record what happened and guard        *)
(* nothing except the bounds of the model.                                 *)
(***************************************************************************)
EXTENDS Integers, Sequences, FiniteSets, TLC

\* ------------------------------------------------------------------ bounds
MaxLen == 2        \* longest payload, also the mq_msgsize of the queue
MaxSends == 2      \* messages the producers enqueue while histories are kept
RecvSends == 1     \* messages the producers enqueue around a one-shot recv
FollowSends == 2   \* messages the producers enqueue for a follow loop
QMaxMsg == 2       \* mq_maxmsg of the queue that exists at the start

\* ------------------------------------------------------- program constants
LF == 10                \* '\n'
NUL == 0                \* '\0'
NoDelimiter == 120      \* 'x'
DefaultMaxMsg == 10
DefaultMsgSize == 1024
TraceLine == 256        \* stands for one line printed by LOG_VERBOSE
TraceHexa == 257        \* stands for one line printed by LOG_VERBOSE_HEXA
InfoLine == 258         \* stands for the line cmd_info prints
ExitMask == 256         \* the exit status is the low 8 bits of main's result

Byte == {97, 98}
Prios == {0, 1}

RECURSIVE SeqsUpTo(_, _)
SeqsUpTo(S, k) ==
  IF k = 0 THEN {<<>>}
  ELSE LET shorter == SeqsUpTo(S, k - 1)
       IN  shorter \cup {Append(s, b) : s \in {t \in shorter : Len(t) = k - 1}, b \in S}

Payloads == SeqsUpTo(Byte, MaxLen)

IsPrefix(s, t) == Len(s) <= Len(t) /\ SubSeq(t, 1, Len(s)) = s

RECURSIVE SelectPrio(_, _)
SelectPrio(s, p) ==
  IF s = <<>> THEN <<>>
  ELSE IF Head(s).prio = p THEN <<Head(s)>> \o SelectPrio(Tail(s), p)
       ELSE SelectPrio(Tail(s), p)

VARIABLES
  exists,                 \* the kernel has a queue of the name QNAME
  attr,                   \* its mq_maxmsg and mq_msgsize
  q,                      \* its messages, in delivery order
  cli,                    \* the command line of the process
  args,                   \* struct arguments
  pc,                     \* where the process is
  queue,                  \* mqd_t queue: -1, or the open descriptor
  oflag,                  \* int oflag: the flags given to mq_open
  ret,                    \* int ret
  n,                      \* ssize_t n
  buffer,                 \* the bytes mq_receive put in buffer
  messageRemainingBytes,
  messageWrittenBytes,
  rv,                     \* the result of poll
  revents,                \* ufds[0].revents
  stdoutBuf,              \* printf output not yet flushed
  out,                    \* bytes written to file descriptor 1
  err,                    \* diagnostics written to stderr
  tty,                    \* stdout is a terminal (stdio looks when it first prints):
                          \* printf flushes at each line
  status,                 \* exit status of the process, -1 while it runs
  cur,                    \* the message that is in buffer
  sent,                   \* history: messages enqueued, in enqueue order
  handed,                 \* history: messages passed to write_msg_with_delimiter
  opens,                  \* history: successful mq_open calls of this process
  closes,                 \* history: mq_close calls of this process
  failed,                 \* history: a system call of this process failed
  partial,                \* history: payload writes of this Framer call that were
                          \* "short" (fewer bytes than asked) or "zero" (none)
  mark,                   \* history: Len(out) when the Framer was entered
  keep,                   \* what is recorded: "log", the histories sent and handed
                          \* and all of standard output (bounded runs); "ids", the
                          \* ids of the pending messages and the output of the
                          \* message in buffer (runs without end)
  faults                  \* system calls may fail for outside reasons (EINTR, EIO, ...)

kernel == <<exists, attr, q>>
locals == <<queue, oflag, ret, n, buffer, messageRemainingBytes, messageWrittenBytes, rv, revents>>
stdio == <<stdoutBuf, out, err>>
hist == <<cur, handed, opens, closes, failed, partial, mark>>
vars == <<exists, attr, q, cli, args, pc, queue, oflag, ret, n, buffer, messageRemainingBytes,
          messageWrittenBytes, rv, revents, stdoutBuf, out, err, tty, status, cur,
          sent, handed, opens, closes, failed, partial, mark, keep, faults>>

NoMsg == [id |-> 0, prio |-> 0, payload |-> <<>>, arg |-> <<>>]

\* ---------------------------------------------------------------- kernel
\* a queue that delivers the newest message first
EnqueueFront(s, m) == <<m>> \o s

\* The queue is kept in delivery order: highest priority first, and within
\* one priority the oldest first (mq_overview(7)).
RECURSIVE Enqueue(_, _)
Enqueue(s, m) ==
  IF s = <<>> THEN <<m>>
  ELSE IF Head(s).prio >= m.prio THEN <<Head(s)>> \o Enqueue(Tail(s), m)
       ELSE <<m>> \o s

\* mq_send(queue, msg, len, prio) can enqueue now
CanSend(len) == exists /\ Len(q) < attr.maxmsg /\ len <= attr.msgsize

\* the id of the next message: fresh, or one that no pending message has
Ids == 1..(QMaxMsg + 1)

PendingIds == {q[i].id : i \in 1..Len(q)}

FreeId ==
  IF keep = "log" THEN Len(sent) + 1
  ELSE CHOOSE i \in Ids \ (PendingIds \cup {cur.id}) :
         \A j \in Ids \ (PendingIds \cup {cur.id}) : i <= j

RECURSIVE strlen(_)
strlen(s) == IF s = <<>> \/ Head(s) = NUL THEN 0 ELSE 1 + strlen(Tail(s))

\* the message mq_send(queue, message, msglen, priority) enqueues; arg
\* records the MESSAGE argument the sender was given
SentMessage(id, message, msglen, priority) ==
  [id |-> id, prio |-> priority, payload |-> SubSeq(message, 1, msglen), arg |-> message]

\* a producer process runs `mq send QNAME message -p prio`
EnvSend(message, prio, limit) ==
  /\ CanSend(strlen(message))
  /\ keep = "log" => Len(sent) < limit
  /\ LET m == SentMessage(FreeId, message, strlen(message), prio)
     IN  /\ q' = Enqueue(q, m)
         /\ sent' = IF keep = "log" THEN Append(sent, m) ELSE sent
  /\ UNCHANGED <<exists, attr, cli, args, pc, locals, stdio, tty, status, hist, keep, faults>>

Descriptor == 3         \* the descriptor mq_open returns
NoAttr == [maxmsg |-> 0, msgsize |-> 0]

\* ----------------------------------------------------------------- stdio
\* LOG_VERBOSE and LOG_VERBOSE_HEXA print with printf, that is to stdout,
\* through the stdio buffer: on a terminal the line is flushed at once,
\* otherwise it stays in the buffer until the process exits.
VerboseBuf(tok) ==
  IF args.verbose /\ ~tty THEN Append(stdoutBuf, tok) ELSE stdoutBuf

VerboseOut(tok) ==
  IF args.verbose /\ tty THEN (out \o stdoutBuf) \o <<tok>> ELSE out

\* LOG_ERR prints to stderr
LOG_ERR(what) == err' = err \cup {what}

\* the process ends (return from main, or exit()): stdio is flushed
Finish(code, b, o) ==
  /\ status' = code % ExitMask
  /\ pc' = "done"
  /\ out' = o \o b
  /\ stdoutBuf' = <<>>

\* ------------------------------------------------------------ main, argp
DefaultArgs ==
  [verbose |-> FALSE, command |-> "", maxmsg |-> DefaultMaxMsg,
   msgsize |-> DefaultMsgSize, blocking |-> TRUE, follow |-> FALSE,
   message |-> <<>>, msglen |-> 0, priority |-> 0, delimiter |-> LF]

\* numeric option arguments are given as numbers (atoi of a numeral)
parse_opt(key, arg, a) ==
  CASE key = "v" -> [a EXCEPT !.verbose = TRUE]
    [] key = "n" -> [a EXCEPT !.blocking = FALSE]
    [] key = "f" -> [a EXCEPT !.follow = TRUE]
    [] key = "s" -> [a EXCEPT !.msgsize = arg]
    [] key = "m" -> [a EXCEPT !.maxmsg = arg]
    [] key = "p" -> [a EXCEPT !.priority = arg]
    [] key = "d" -> [a EXCEPT !.delimiter =
                       CASE arg = "n" -> LF [] arg = "z" -> NUL [] arg = "x" -> NoDelimiter]
    [] key = "command" -> [a EXCEPT !.command = arg]
    [] key = "message" -> [a EXCEPT !.message = arg, !.msglen = strlen(arg)]

\* a command line: the command word, the options given, the message of send
\* (d = "" : no -d option; s, m = 0 : no -s, -m option)
argp_parse(c) ==
  LET a1 == IF c.v THEN parse_opt("v", 0, DefaultArgs) ELSE DefaultArgs
      a2 == IF c.n THEN parse_opt("n", 0, a1) ELSE a1
      a3 == IF c.f THEN parse_opt("f", 0, a2) ELSE a2
      a4 == IF c.d # "" THEN parse_opt("d", c.d, a3) ELSE a3
      a5 == IF c.s # 0 THEN parse_opt("s", c.s, a4) ELSE a4
      a6 == IF c.m # 0 THEN parse_opt("m", c.m, a5) ELSE a5
      a7 == parse_opt("p", c.p, a6)
      a8 == parse_opt("command", c.command, a7)
  IN  IF c.command = "send" THEN parse_opt("message", c.message, a8) ELSE a8

Dispatch(a) ==
  CASE a.command = "create" -> "create_open"
    [] a.command = "info" -> "info_open"
    [] a.command = "unlink" -> "unlink"
    [] a.command = "send" -> "send_open"
    [] a.command = "recv" -> IF a.follow THEN "follow_open" ELSE "recv_open"
    [] OTHER -> "usage"

NoCli ==
  [command |-> "", v |-> FALSE, n |-> FALSE, f |-> FALSE, d |-> "",
   message |-> <<>>, p |-> 0, s |-> 0, m |-> 0]

Cli(command, v, nb, f, d, message, p, s, m) ==
  [command |-> command, v |-> v, n |-> nb, f |-> f, d |-> d,
   message |-> message, p |-> p, s |-> s, m |-> m]

\* the state of a process that has not started
Fresh ==
  /\ queue' = -1 /\ oflag' = {} /\ ret' = 0 /\ n' = 0 /\ buffer' = <<>>
  /\ messageRemainingBytes' = 0 /\ messageWrittenBytes' = 0
  /\ rv' = 0 /\ revents' = {}
  /\ stdoutBuf' = <<>> /\ out' = <<>> /\ err' = {}
  /\ status' = -1
  /\ cur' = NoMsg /\ opens' = 0 /\ closes' = 0 /\ failed' = FALSE
  /\ partial' = {} /\ mark' = 0

\* a new mq process starts: main up to the call of the cmd_ function
Start(c) ==
  /\ pc = "idle"
  /\ cli' = c
  /\ args' = argp_parse(c)
  /\ pc' = Dispatch(args')
  /\ tty' \in (IF c.v THEN BOOLEAN ELSE {FALSE})
  /\ UNCHANGED <<kernel, locals, stdio, status, hist, sent, keep, faults>>

\* the process is gone, the next command can be given
Again ==
  /\ pc = "done"
  /\ pc' = "idle"
  /\ cli' = NoCli
  /\ args' = DefaultArgs
  /\ tty' = FALSE
  /\ Fresh
  /\ handed' = handed
  /\ UNCHANGED <<kernel, sent, keep, faults>>

\* main after `else usage(&argp);`: argp_help prints the help on stderr and
\* returns, and main reaches its closing brace without a return statement.
\* The value handed to the system is 0 when the build follows C99 or later
\* and is not specified by C89.
MainEndStatus == {0, 1}

usage ==
  /\ pc = "usage"
  /\ LOG_ERR("usage")
  /\ \E code \in MainEndStatus : Finish(code, stdoutBuf, out)
  /\ UNCHANGED <<kernel, cli, args, locals, tty, hist, sent, keep, faults>>

\* ------------------------------------------------------ mqu_open_ro, recv

\* mq_open of an existing queue: fails when there is none (ENOENT), and may
\* fail for outside reasons (EACCES, EMFILE)
OpenOutcomes == IF exists THEN (IF faults THEN {TRUE, FALSE} ELSE {TRUE}) ELSE {FALSE}

\* a system call on an open descriptor that fails only for outside reasons
CallOutcomes == IF faults THEN {TRUE, FALSE} ELSE {TRUE}

ReadFlags(a) == IF a.blocking THEN {"O_RDONLY"} ELSE {"O_RDONLY", "O_NONBLOCK"}

mqu_open_ro ==
  /\ pc \in {"recv_open", "follow_open"}
  /\ oflag' = ReadFlags(args)
  /\ \E ok \in OpenOutcomes :
       IF ok
       THEN /\ queue' = Descriptor
            /\ opens' = opens + 1
            /\ pc' = IF pc = "recv_open" THEN "recv_getattr" ELSE "follow_getattr"
            /\ stdoutBuf' = VerboseBuf(TraceLine)
            /\ out' = VerboseOut(TraceLine)
            /\ UNCHANGED <<err, status, failed>>
       ELSE /\ queue' = -1
            /\ LOG_ERR("mq_open")
            /\ failed' = TRUE
            /\ Finish(1, VerboseBuf(TraceLine), VerboseOut(TraceLine))
            /\ UNCHANGED opens
  /\ UNCHANGED <<kernel, cli, args, ret, n, buffer, messageRemainingBytes, messageWrittenBytes,
                 rv, revents, tty, cur, sent, handed, closes, partial, mark, keep, faults>>

\* cmd_recv: mq_getattr, then malloc(attr.mq_msgsize)
recv_getattr ==
  /\ pc = "recv_getattr"
  /\ \E ok \in CallOutcomes :
       IF ok
       THEN /\ ret' = 0
            /\ pc' = "recv_receive"
            /\ UNCHANGED <<stdio, status, closes, failed>>
       ELSE /\ ret' = -1
            /\ closes' = closes + 1
            /\ failed' = TRUE
            /\ Finish(1, stdoutBuf, out)
            /\ UNCHANGED err
  /\ UNCHANGED <<kernel, cli, args, queue, oflag, n, buffer, messageRemainingBytes,
                 messageWrittenBytes, rv, revents, tty, cur, sent, handed, opens,
                 partial, mark, keep, faults>>

\* a receiver that takes an empty message for no message
GotMessageNotEmpty(nn) == nn > 0

\* if (n >= 0)
GotMessage(nn) == nn >= 0

\* mq_receive on an empty queue: EAGAIN at once with O_NONBLOCK; otherwise the
\* call waits, and only a signal ends the wait (EINTR)
\* mq_receive on an empty queue through a descriptor opened with flags fl:
\* with O_NONBLOCK it fails at once (EAGAIN); without, it waits for a
\* message, and fails only when a signal ends the wait (EINTR)
ReceiveFailsWith(fl) == q = <<>> /\ ("O_NONBLOCK" \in fl \/ faults)

ReceiveErrnoWith(fl) ==
  IF "O_NONBLOCK" \in fl THEN "mq_receive EAGAIN" ELSE "mq_receive EINTR"

ReceiveFails == ReceiveFailsWith(oflag)

ReceiveErrno == ReceiveErrnoWith(oflag)

\* the call of write_msg_with_delimiter(args, buffer, n) after LOG_VERBOSE_HEXA
EnterFramer(m) ==
  /\ stdoutBuf' = VerboseBuf(TraceHexa)
  /\ out' = IF keep = "log" THEN VerboseOut(TraceHexa) ELSE <<>>
  /\ mark' = Len(out')
  /\ messageRemainingBytes' = n'
  /\ messageWrittenBytes' = 0
  /\ partial' = {}
  /\ handed' = IF keep = "log" THEN Append(handed, m) ELSE handed
  /\ pc' = "write_msg"

cmd_recv_receive ==
  /\ pc = "recv_receive"
  /\ \/ /\ q # <<>>
        /\ q' = Tail(q)
        /\ cur' = Head(q)
        /\ buffer' = Head(q).payload
        /\ n' = Len(Head(q).payload)
        /\ IF GotMessage(n')
           THEN /\ EnterFramer(Head(q))
                /\ UNCHANGED <<ret, err, failed>>
           ELSE /\ LOG_ERR("mq_receive")
                /\ ret' = 1
                /\ pc' = "recv_close"
                /\ UNCHANGED <<stdoutBuf, out, mark, messageRemainingBytes,
                               messageWrittenBytes, partial, handed, failed>>
     \/ /\ ReceiveFails
        /\ n' = -1
        /\ LOG_ERR(ReceiveErrno)
        /\ ret' = 1
        /\ failed' = TRUE
        /\ pc' = "recv_close"
        /\ UNCHANGED <<q, cur, buffer, stdoutBuf, out, mark, messageRemainingBytes,
                       messageWrittenBytes, partial, handed>>
  /\ UNCHANGED <<exists, attr, cli, args, queue, oflag, rv, revents, tty, status, sent,
                 opens, closes, keep, faults>>

cmd_recv_close ==
  /\ pc = "recv_close"
  /\ closes' = closes + 1
  /\ Finish(ret, stdoutBuf, out)
  /\ UNCHANGED <<kernel, cli, args, locals, err, tty, cur, sent, handed, opens, failed,
                 partial, mark, keep, faults>>

\* ------------------------------------------- create, info, unlink, send
\* mq_open(qname, O_CREAT|O_RDWR|O_EXCL, mode, &attr): EEXIST when the queue
\* exists, EINVAL for attributes that are not positive
\* a cmd_create that opens without O_EXCL
CreateFlagsShared == {"O_CREAT", "O_RDWR"}

\* mq_open(args->qname, O_CREAT|O_RDWR|O_EXCL, mode, &attr)
CreateFlags == {"O_CREAT", "O_RDWR", "O_EXCL"}

\* with O_CREAT and O_EXCL mq_open fails when the queue exists (EEXIST);
\* without O_EXCL it opens the queue that exists; a new queue needs
\* attributes the system accepts (EINVAL otherwise)
CreateOutcomes ==
  IF exists
  THEN (IF "O_EXCL" \in CreateFlags THEN {FALSE} ELSE {TRUE})
  ELSE IF args.maxmsg > 0 /\ args.msgsize > 0
       THEN (IF faults THEN {TRUE, FALSE} ELSE {TRUE})
       ELSE {FALSE}

CreateErrno == IF exists THEN "mq_open EEXIST" ELSE "mq_open"

\* cmd_create returns without mq_close
cmd_create ==
  /\ pc = "create_open"
  /\ oflag' = CreateFlags
  /\ \E ok \in CreateOutcomes :
       IF ok
       THEN /\ exists' = TRUE
            /\ attr' = IF exists THEN attr
                       ELSE [maxmsg |-> args.maxmsg, msgsize |-> args.msgsize]
            /\ q' = IF exists THEN q ELSE <<>>
            /\ queue' = Descriptor
            /\ opens' = opens + 1
            /\ Finish(0, VerboseBuf(TraceLine), VerboseOut(TraceLine))
            /\ UNCHANGED <<err, failed>>
       ELSE /\ queue' = -1
            /\ LOG_ERR(CreateErrno)
            /\ failed' = TRUE
            /\ Finish(1, VerboseBuf(TraceLine), VerboseOut(TraceLine))
            /\ UNCHANGED <<kernel, opens>>
  /\ UNCHANGED <<cli, args, ret, n, buffer, messageRemainingBytes, messageWrittenBytes,
                 rv, revents, tty, cur, sent, handed, closes, partial, mark, keep, faults>>

cmd_info_open ==
  /\ pc = "info_open"
  /\ oflag' = {"O_RDONLY"}
  /\ \E ok \in OpenOutcomes :
       IF ok
       THEN /\ queue' = Descriptor
            /\ opens' = opens + 1
            /\ pc' = "info_getattr"
            /\ stdoutBuf' = VerboseBuf(TraceLine)
            /\ out' = VerboseOut(TraceLine)
            /\ UNCHANGED <<err, status, failed>>
       ELSE /\ queue' = -1
            /\ LOG_ERR("mq_open")
            /\ failed' = TRUE
            /\ Finish(1, VerboseBuf(TraceLine), VerboseOut(TraceLine))
            /\ UNCHANGED opens
  /\ UNCHANGED <<kernel, cli, args, ret, n, buffer, messageRemainingBytes,
                 messageWrittenBytes, rv, revents, tty, cur, sent, handed, closes,
                 partial, mark, keep, faults>>

\* printf of the info line: it goes through stdio like every printf
PrintfBuf(tok) == IF tty THEN <<>> ELSE Append(stdoutBuf, tok)

PrintfOut(tok) == IF tty THEN (out \o stdoutBuf) \o <<tok>> ELSE out

\* mq_getattr, then the info line or the diagnostic
cmd_info_getattr ==
  /\ pc = "info_getattr"
  /\ \E ok \in CallOutcomes :
       IF ok
       THEN /\ ret' = 0
            /\ stdoutBuf' = PrintfBuf(InfoLine)
            /\ out' = PrintfOut(InfoLine)
            /\ UNCHANGED <<err, failed>>
       ELSE /\ ret' = 1
            /\ LOG_ERR("mq_getattr")
            /\ failed' = TRUE
            /\ UNCHANGED <<stdoutBuf, out>>
  /\ pc' = "info_close"
  /\ UNCHANGED <<kernel, cli, args, queue, oflag, n, buffer, messageRemainingBytes,
                 messageWrittenBytes, rv, revents, tty, status, cur, sent, handed,
                 opens, closes, partial, mark, keep, faults>>

cmd_info_close ==
  /\ pc = "info_close"
  /\ closes' = closes + 1
  /\ Finish(ret, stdoutBuf, out)
  /\ UNCHANGED <<kernel, cli, args, locals, err, tty, cur, sent, handed, opens, failed,
                 partial, mark, keep, faults>>

\* mq_unlink(qname): ENOENT when there is no queue of the name
UnlinkOutcomes == IF exists THEN (IF faults THEN {0, -1} ELSE {0}) ELSE {-1}

cmd_unlink ==
  /\ pc = "unlink"
  /\ \E r \in UnlinkOutcomes :
       /\ ret' = r
       /\ IF 0 # r
          THEN /\ LOG_ERR("mq_unlink")
               /\ failed' = TRUE
               /\ Finish(1, VerboseBuf(TraceLine), VerboseOut(TraceLine))
               /\ UNCHANGED kernel
          ELSE /\ exists' = FALSE
               /\ attr' = NoAttr
               /\ q' = <<>>
               /\ Finish(0, VerboseBuf(TraceLine), VerboseOut(TraceLine))
               /\ UNCHANGED <<err, failed>>
  /\ UNCHANGED <<cli, args, queue, oflag, n, buffer, messageRemainingBytes,
                 messageWrittenBytes, rv, revents, tty, cur, sent, handed, opens, closes,
                 partial, mark, keep, faults>>

\* a cmd_send that opens the queue blocking whatever args->blocking is
WriteFlagsBlocking(a) == {"O_WRONLY"}

WriteFlags(a) == IF a.blocking THEN {"O_WRONLY"} ELSE {"O_WRONLY", "O_NONBLOCK"}

cmd_send_open ==
  /\ pc = "send_open"
  /\ oflag' = WriteFlags(args)
  /\ \E ok \in OpenOutcomes :
       IF ok
       THEN /\ queue' = Descriptor
            /\ opens' = opens + 1
            /\ pc' = "send_send"
            /\ stdoutBuf' = VerboseBuf(TraceLine)
            /\ out' = VerboseOut(TraceLine)
            /\ UNCHANGED <<err, status, failed>>
       ELSE /\ queue' = -1
            /\ LOG_ERR("mq_open")
            /\ failed' = TRUE
            /\ Finish(1, VerboseBuf(TraceLine), VerboseOut(TraceLine))
            /\ UNCHANGED opens
  /\ UNCHANGED <<kernel, cli, args, ret, n, buffer, messageRemainingBytes,
                 messageWrittenBytes, rv, revents, tty, cur, sent, handed, closes,
                 partial, mark, keep, faults>>

\* mq_send cannot enqueue: the message is longer than mq_msgsize (EMSGSIZE),
\* or the queue is full and the descriptor is O_NONBLOCK (EAGAIN) or a
\* signal ends the wait (EINTR)
SendFails ==
  \/ args.msglen > attr.msgsize
  \/ Len(q) >= attr.maxmsg /\ ("O_NONBLOCK" \in oflag \/ faults)

SendErrno ==
  IF args.msglen > attr.msgsize THEN "mq_send EMSGSIZE"
  ELSE IF "O_NONBLOCK" \in oflag THEN "mq_send EAGAIN" ELSE "mq_send EINTR"

\* a cmd_send that returns the result of mq_send as it is
SendRetRaw(r) == r

\* if (0 != ret) { LOG_ERR(...); ret = 1; }
SendRet(r) == IF 0 # r THEN 1 ELSE r

cmd_send_send ==
  /\ pc = "send_send"
  /\ stdoutBuf' = VerboseBuf(TraceHexa)
  /\ out' = VerboseOut(TraceHexa)
  /\ \/ /\ CanSend(args.msglen)
        /\ LET m == SentMessage(FreeId, args.message, args.msglen, args.priority)
           IN  /\ q' = Enqueue(q, m)
               /\ sent' = IF keep = "log" THEN Append(sent, m) ELSE sent
        /\ ret' = SendRet(0)
        /\ UNCHANGED <<err, failed>>
     \/ /\ SendFails
        /\ ret' = SendRet(-1)
        /\ LOG_ERR(SendErrno)
        /\ failed' = TRUE
        /\ UNCHANGED <<q, sent>>
  /\ pc' = "send_close"
  /\ UNCHANGED <<exists, attr, cli, args, queue, oflag, n, buffer, messageRemainingBytes,
                 messageWrittenBytes, rv, revents, tty, status, cur, handed, opens,
                 closes, partial, mark, keep, faults>>

cmd_send_close ==
  /\ pc = "send_close"
  /\ closes' = closes + 1
  /\ Finish(ret, stdoutBuf, out)
  /\ UNCHANGED <<kernel, cli, args, locals, err, tty, cur, sent, handed, opens, failed,
                 partial, mark, keep, faults>>

\* ----------------------------------------------------------- follow loop
\* cmd_recv_follow: mq_getattr, malloc, ufds set up, ret = 1
follow_getattr ==
  /\ pc = "follow_getattr"
  /\ \E ok \in CallOutcomes :
       IF ok
       THEN /\ ret' = 1
            /\ pc' = "follow_poll"
            /\ UNCHANGED <<stdio, status, closes, failed>>
       ELSE /\ ret' = -1
            /\ closes' = closes + 1
            /\ failed' = TRUE
            /\ Finish(1, stdoutBuf, out)
            /\ UNCHANGED err
  /\ UNCHANGED <<kernel, cli, args, queue, oflag, n, buffer, messageRemainingBytes,
                 messageWrittenBytes, rv, revents, tty, cur, sent, handed, opens,
                 partial, mark, keep, faults>>

\* what poll(ufds, 1, -1) can report: <<rv, revents>>. A queue descriptor is
\* readable when the queue holds a message; the other results are failures
\* of the wait (rv = -1), a wake without a ready descriptor (rv = 0) and
\* wakes with an error flag.
PollResults ==
  (IF q # <<>> THEN {<<1, {"POLLIN"}>>} ELSE {})
  \cup (IF faults
        THEN {<<-1, revents>>, <<0, {}>>, <<1, {"POLLERR"}>>}
             \cup (IF q # <<>> THEN {<<1, {"POLLIN", "POLLERR"}>>} ELSE {})
        ELSE {})

follow_poll ==
  /\ pc = "follow_poll"
  /\ \E res \in PollResults :
       /\ rv' = res[1]
       /\ revents' = res[2]
       /\ IF rv' = -1
          THEN /\ LOG_ERR("poll error")
               /\ failed' = TRUE
               /\ pc' = "follow_poll"
          ELSE IF rv' = 1
          THEN IF "POLLIN" \in revents'
               THEN /\ pc' = "follow_receive"
                    /\ UNCHANGED <<err, failed>>
               ELSE /\ LOG_ERR("poll revents != POLLIN")
                    /\ failed' = TRUE
                    /\ pc' = "follow_close"
          ELSE /\ LOG_ERR("poll error(2)")
               /\ failed' = TRUE
               /\ pc' = "follow_poll"
  /\ UNCHANGED <<kernel, cli, args, queue, oflag, ret, n, buffer, messageRemainingBytes,
                 messageWrittenBytes, stdoutBuf, out, tty, status, cur, sent, handed,
                 opens, closes, partial, mark, keep, faults>>

follow_receive ==
  /\ pc = "follow_receive"
  /\ \/ /\ q # <<>>
        /\ q' = Tail(q)
        /\ cur' = Head(q)
        /\ buffer' = Head(q).payload
        /\ n' = Len(Head(q).payload)
        /\ IF GotMessage(n')
           THEN /\ EnterFramer(Head(q))
                /\ UNCHANGED <<err, failed>>
           ELSE /\ LOG_ERR("mq_receive")
                /\ pc' = "follow_close"
                /\ UNCHANGED <<stdoutBuf, out, mark, messageRemainingBytes,
                               messageWrittenBytes, partial, handed, failed>>
     \/ /\ ReceiveFails
        /\ n' = -1
        /\ LOG_ERR(ReceiveErrno)
        /\ failed' = TRUE
        /\ pc' = "follow_close"
        /\ UNCHANGED <<q, cur, buffer, stdoutBuf, out, mark, messageRemainingBytes,
                       messageWrittenBytes, partial, handed>>
  /\ UNCHANGED <<exists, attr, cli, args, queue, oflag, ret, rv, revents, tty, status,
                 sent, opens, closes, keep, faults>>

\* a cmd_recv_follow that returns 1 without mq_close
follow_return ==
  /\ pc = "follow_close"
  /\ Finish(1, stdoutBuf, out)
  /\ UNCHANGED <<kernel, cli, args, locals, err, tty, hist, sent, keep, faults>>

\* a cmd_recv_follow that returns 0 after mq_close
follow_return_0 ==
  /\ pc = "follow_close"
  /\ closes' = closes + 1
  /\ Finish(0, stdoutBuf, out)
  /\ UNCHANGED <<kernel, cli, args, locals, err, tty, cur, sent, handed, opens, failed,
                 partial, mark, keep, faults>>

\* after the loop: mq_close(queue); return 1
follow_close ==
  /\ pc = "follow_close"
  /\ closes' = closes + 1
  /\ Finish(1, stdoutBuf, out)
  /\ UNCHANGED <<kernel, cli, args, locals, err, tty, cur, sent, handed, opens, failed,
                 partial, mark, keep, faults>>

\* ---------------------------------------------------------------- Framer
\* write(1, buf, count): -1, or the number of bytes transferred
WriteResults(count) == (IF faults THEN {-1} ELSE {}) \cup (0..count)

\* the bytes write(1, buffer, count) takes when it transfers r bytes: buffer
\* is never advanced, so every call starts at the first byte of the payload
WrittenBytes(r) == SubSeq(buffer, 1, r)

\* exit(1) inside the Framer: the descriptor is not closed by mq_close
FramerExit(what) ==
  /\ LOG_ERR(what)
  /\ failed' = TRUE
  /\ Finish(1, stdoutBuf, out)
  /\ UNCHANGED <<messageRemainingBytes, ret>>

ShortKind(r, count) ==
  IF r = count THEN {} ELSE IF r = 0 THEN {"zero"} ELSE {"short"}

write_msg ==
  /\ pc = "write_msg"
  /\ \E r \in WriteResults(messageRemainingBytes) :
       /\ messageWrittenBytes' = r
       /\ IF r = -1
          THEN /\ FramerExit("write message")
               /\ UNCHANGED partial
          ELSE /\ out' = out \o WrittenBytes(r)
               /\ messageRemainingBytes' = messageRemainingBytes - r
               /\ partial' = partial \cup ShortKind(r, messageRemainingBytes)
               /\ pc' = IF messageRemainingBytes' > 0 THEN "write_msg" ELSE "write_delim"
               /\ UNCHANGED <<stdoutBuf, err, status, failed, ret>>
  /\ UNCHANGED <<kernel, cli, args, queue, oflag, n, buffer, rv, revents, tty, cur, sent,
                 handed, opens, closes, mark, keep, faults>>

\* a Framer that takes '\0', not 'x', for "no delimiter"
HasDelimiterNotNul(a) == a.delimiter # NUL

\* if (args->delimiter != 'x')
HasDelimiter(a) == a.delimiter # NoDelimiter

\* the return of write_msg_with_delimiter to cmd_recv or to the follow loop
FramerReturn ==
  /\ pc' = IF args.follow THEN "follow_poll" ELSE "recv_close"
  /\ ret' = IF args.follow THEN ret ELSE 0
  /\ UNCHANGED <<stdoutBuf, err, status, failed, messageRemainingBytes>>

\* write(1, &args->delimiter, 1): the code takes any result but 1 for a
\* failure
DelimiterResults == IF faults THEN WriteResults(1) ELSE {1}

write_delim ==
  /\ pc = "write_delim"
  /\ IF HasDelimiter(args)
     THEN \E r \in DelimiterResults :
            /\ messageWrittenBytes' = r
            /\ IF r = -1 THEN FramerExit("write delimiter")
               ELSE IF r # 1 THEN FramerExit("Expected single byte to be written")
               ELSE /\ out' = Append(out, args.delimiter)
                    /\ FramerReturn
     ELSE /\ FramerReturn
          /\ UNCHANGED <<out, messageWrittenBytes>>
  /\ UNCHANGED <<kernel, cli, args, queue, oflag, n, buffer, rv, revents, tty, cur, sent,
                 handed, opens, closes, partial, mark, keep, faults>>

\* ------------------------------------------------------- specifications
InitCommon ==
  /\ q = <<>>
  /\ cli = NoCli
  /\ args = DefaultArgs
  /\ pc = "idle"
  /\ queue = -1 /\ oflag = {} /\ ret = 0 /\ n = 0 /\ buffer = <<>>
  /\ messageRemainingBytes = 0 /\ messageWrittenBytes = 0
  /\ rv = 0 /\ revents = {}
  /\ stdoutBuf = <<>> /\ out = <<>> /\ err = {}
  /\ tty = FALSE
  /\ status = -1
  /\ cur = NoMsg /\ sent = <<>> /\ handed = <<>>
  /\ opens = 0 /\ closes = 0 /\ failed = FALSE /\ partial = {} /\ mark = 0

Delimiters == {"", "n", "z", "x"}

\* one-shot recv, with producers
\* the queue was created earlier with `mq create QNAME -m QMaxMsg -s MaxLen`
HaveQueue == exists = TRUE /\ attr = [maxmsg |-> QMaxMsg, msgsize |-> MaxLen]

InitRecv == InitCommon /\ HaveQueue /\ keep = "log" /\ faults = TRUE

RecvCommands ==
  {Cli("recv", v, nb, FALSE, d, <<>>, 0, 0, 0) :
     v \in BOOLEAN, nb \in BOOLEAN, d \in Delimiters}

StartRecv == \E c \in RecvCommands : Start(c)

\* producers that run `mq send QNAME payload` (default priority)
RecvProducer == \E payload \in Payloads : EnvSend(payload, 0, RecvSends)

NextRecv ==
  \/ StartRecv
  \/ RecvProducer
  \/ mqu_open_ro
  \/ recv_getattr
  \/ cmd_recv_receive
  \/ write_msg
  \/ write_delim
  \/ cmd_recv_close

SpecRecv == InitRecv /\ [][NextRecv]_vars

\* the follow loop with producers of any priority, while it runs
FollowMessages == {<<>>, <<97, 98>>}

InitFollow == InitCommon /\ HaveQueue /\ keep = "log" /\ faults = TRUE

FollowCommands ==
  {Cli("recv", FALSE, nb, TRUE, d, <<>>, 0, 0, 0) : nb \in BOOLEAN, d \in Delimiters}

StartFollow == \E c \in FollowCommands : Start(c)

FollowProducer ==
  /\ pc # "idle"
  /\ \E message \in FollowMessages, prio \in Prios : EnvSend(message, prio, FollowSends)

NextFollow ==
  \/ StartFollow
  \/ FollowProducer
  \/ mqu_open_ro
  \/ follow_getattr
  \/ follow_poll
  \/ follow_receive
  \/ write_msg
  \/ write_delim
  \/ follow_close

SpecFollow == InitFollow /\ [][NextFollow]_vars

\* the follow loop with producers and with another consumer on the queue
\* (a second `mq recv` or any process that calls mq_receive)
CompetingConsumer ==
  /\ pc # "idle"
  /\ exists /\ q # <<>>
  /\ q' = Tail(q)
  /\ UNCHANGED <<exists, attr, cli, args, pc, locals, stdio, tty, status, hist, sent,
                 keep, faults>>

NextCompete == NextFollow \/ CompetingConsumer

SpecCompete == InitFollow /\ [][NextCompete]_vars

\* the follow loop without failures and with producers that never have to
\* stop; the steps of the process are weakly fair
InitLive == InitCommon /\ HaveQueue /\ keep = "ids" /\ faults = FALSE

LiveCommands ==
  {Cli("recv", FALSE, nb, TRUE, d, <<>>, 0, 0, 0) : nb \in BOOLEAN, d \in {"", "x"}}

StartLive == \E c \in LiveCommands : Start(c)

LiveProducer ==
  \E message \in FollowMessages, prio \in Prios : EnvSend(message, prio, 0)

FollowSteps ==
  \/ StartLive
  \/ mqu_open_ro
  \/ follow_getattr
  \/ follow_poll
  \/ follow_receive
  \/ write_msg
  \/ write_delim

NextLive == FollowSteps \/ LiveProducer

LiveSpec == InitLive /\ [][NextLive]_vars /\ WF_vars(FollowSteps)

\* every command, one invocation after the other; no queue at the start
CmdMessages == {<<>>, <<97, 98>>}

InitCmd ==
  InitCommon /\ exists = FALSE /\ attr = NoAttr /\ keep = "log" /\ faults = TRUE

CreateCommands ==
  {Cli("create", v, FALSE, FALSE, "", <<>>, 0, MaxLen, m) :
     v \in BOOLEAN, m \in {1, QMaxMsg}}

InfoCommands == {Cli("info", v, FALSE, FALSE, "", <<>>, 0, 0, 0) : v \in BOOLEAN}

UnlinkCommands == {Cli("unlink", v, FALSE, FALSE, "", <<>>, 0, 0, 0) : v \in BOOLEAN}

SendCommands ==
  {Cli("send", v, nb, FALSE, "", message, 0, 0, 0) :
     v \in BOOLEAN, nb \in BOOLEAN, message \in CmdMessages}

AllRecvCommands ==
  {Cli("recv", v, nb, f, d, <<>>, 0, 0, 0) :
     v \in BOOLEAN, nb \in BOOLEAN, f \in BOOLEAN, d \in Delimiters}

\* a command word that is none of the five
UnknownCommands == {Cli("frob", v, FALSE, FALSE, "", <<>>, 0, 0, 0) : v \in BOOLEAN}

StartCmd ==
  \/ \E c \in CreateCommands : Start(c)
  \/ \E c \in UnknownCommands : Start(c)
  \/ \E c \in InfoCommands : Start(c)
  \/ \E c \in UnlinkCommands : Start(c)
  \/ \E c \in SendCommands : Len(sent) < MaxSends /\ Start(c)
  \/ \E c \in AllRecvCommands : Start(c)

Next ==
  \/ StartCmd
  \/ Again
  \/ usage
  \/ cmd_create
  \/ cmd_info_open
  \/ cmd_info_getattr
  \/ cmd_info_close
  \/ cmd_unlink
  \/ cmd_send_open
  \/ cmd_send_send
  \/ cmd_send_close
  \/ mqu_open_ro
  \/ recv_getattr
  \/ cmd_recv_receive
  \/ cmd_recv_close
  \/ follow_getattr
  \/ follow_poll
  \/ follow_receive
  \/ follow_close
  \/ write_msg
  \/ write_delim

Spec == InitCmd /\ [][Next]_vars

\* ============================================================ properties

\* the bytes the payload loop of the Framer has put on file descriptor 1
LoopBytes == SubSeq(out, mark + 1, Len(out))

\* C1: when the payload loop of write_msg_with_delimiter has ended and every
\* write transferred at least one byte, the bytes the loop appended to
\* standard output are exactly the payload, in order, each byte once.
C1_PayloadLoopExact ==
  (pc = "write_delim" /\ "zero" \notin partial) => LoopBytes = cur.payload

\* C2, as stated: at every moment the messages the follow loop has handed
\* to the Framer are a prefix of the messages in enqueue order, whatever
\* their priorities.
C2_EnqueueOrder == cli.f => IsPrefix(handed, sent)

\* C2: at every moment and for each priority, the messages of that priority
\* the follow loop has handed to the Framer are a prefix of the messages of
\* that priority in enqueue order: none skipped, none twice, none reordered.
C2_EnqueueOrderPerPriority ==
  cli.f => \A p \in Prios : IsPrefix(SelectPrio(handed, p), SelectPrio(sent, p))

C2_Witness ==
  /\ cli.f /\ pc = "follow_poll" /\ partial = {}
  /\ Len(handed) = 2 /\ handed = sent
  /\ handed[1].prio = handed[2].prio
  /\ handed[1].payload # handed[2].payload

\* the loop has received message i and entered the Framer with it
Handed(i) == pc = "write_msg" /\ cur.id = i

HigherPending(i) ==
  \E k, l \in 1..Len(q) : q[k].id = i /\ q[l].prio > q[k].prio

\* C3, as stated: under weak fairness of the loop's steps and without
\* failures, every message in the queue is eventually handed to the Framer.
C3_EveryMessageReceived == \A i \in Ids : (i \in PendingIds) ~> Handed(i)

\* C3: under weak fairness of the loop's steps and without failures, every
\* message in the queue is eventually handed to the Framer or has a message
\* of higher priority pending with it; a message handed to the Framer has
\* left the queue, so it is handed once.
C3_ReceivedUnlessOvertaken ==
  /\ \A i \in Ids : (i \in PendingIds) ~> (Handed(i) \/ HigherPending(i))
  /\ [](pc = "write_msg" => cur.id \notin PendingIds)

C3_Witness ==
  /\ keep = "ids" /\ pc = "write_msg"
  /\ cur.id = QMaxMsg + 1 /\ cur.prio = 0
  /\ q # <<>>

\* C10: a non-blocking recv that found the queue empty (EAGAIN) has, when
\* the process is over, written no byte to standard output, closed its
\* handle and exit status 1; the queue is as it was (empty).
C10_NonBlockingEmpty ==
  (pc = "done" /\ cli.command = "recv" /\ ~cli.f /\ "mq_receive EAGAIN" \in err)
    => (out = <<>> /\ status = 1 /\ closes = opens /\ n = -1)

\* ------------------------------------------------------------------
\* what the delimiter option asks for
ExpectedDelimiter(d) ==
  CASE d \in {"", "n"} -> <<LF>>
    [] d = "z" -> <<NUL>>
    [] d = "x" -> <<>>

RECURSIVE Occurrences(_, _)
Occurrences(s, b) ==
  IF s = <<>> THEN 0
  ELSE (IF Head(s) = b THEN 1 ELSE 0) + Occurrences(Tail(s), b)

Traces == {TraceLine, TraceHexa, InfoLine}

\* write_msg_with_delimiter has returned for the message in buffer, and
\* nothing was printed since
FramerReturned ==
  \/ pc = "recv_close" /\ ret = 0
  \/ pc \in {"follow_poll", "follow_receive"} /\ cur # NoMsg

OneShot ==
  \/ cli.command \in {"create", "info", "unlink", "send"}
  \/ cli.command = "recv" /\ ~cli.f

\* C4: a one-shot recv that received the message of `mq send QNAME P` and
\* met no failure ends with exit status 0 and with exactly the bytes of P,
\* then the delimiter, on standard output.
C4_RoundTrip ==
  (pc = "done" /\ cli.command = "recv" /\ ~cli.f /\ cur # NoMsg /\ ~failed)
    => (status = 0 /\ out = cur.arg \o ExpectedDelimiter(cli.d))

\* C5: when the process of any command is over, it has called mq_close
\* once for every successful mq_open.
C5_CloseEveryOpen == pc = "done" => closes = opens

\* C6: create, info, unlink, send and one-shot recv end with exit status 0
\* when no step failed and with exactly 1 when a step failed.
C6_ExitStatus ==
  (pc = "done" /\ OneShot) => status = (IF failed THEN 1 ELSE 0)

C6_Witness ==
  pc = "done" /\ cli.command = "send" /\ opens = 1 /\ failed /\ status = 1

\* C7: while the payload loop runs, standard output holds nothing after the
\* payload bytes; when the Framer has returned it holds the n bytes of the
\* payload loop (the payload, when every write was complete) followed by
\* exactly the delimiter the option asks for: one LF for n and for no
\* option, one NUL for z, nothing for x; and every byte on standard output
\* that is neither a payload byte nor a trace line is that delimiter.
C7_DelimiterFraming ==
  /\ pc = "write_msg" => Len(out) = mark + (n - messageRemainingBytes)
  /\ pc = "write_delim" => Len(out) = mark + n
  /\ FramerReturned =>
       /\ out = SubSeq(out, 1, mark + n) \o ExpectedDelimiter(cli.d)
       /\ partial = {} => SubSeq(out, mark + 1, mark + n) = cur.payload
  /\ cli.command = "recv" =>
       \A i \in 1..Len(out) :
         out[i] \notin (Byte \cup Traces) => <<out[i]>> = ExpectedDelimiter(cli.d)

C7_Witness ==
  /\ cli.f /\ cli.d = "z" /\ pc = "follow_poll"
  /\ Occurrences(out, NUL) = 2 /\ n > 0 /\ partial = {}

\* a zero-length message is in buffer
ZeroLength == cur # NoMsg /\ n = 0

C9_NoTraceOnStdout ==
  cli.command = "recv" => \A i \in 1..Len(out) : out[i] \notin Traces

\* C11: a send with -n that finds the queue full fails in that one call of
\* mq_send with EAGAIN: the queue (messages, order, priorities) is as before,
\* the result is 1 and the next step is mq_close; the process then ends
\* with exit status 1, its handle closed.
C11_NonBlockingFull ==
  /\ [][(cmd_send_send /\ cli.n /\ Len(q) >= attr.maxmsg /\ args.msglen <= attr.msgsize)
          => (q' = q /\ ret' = 1 /\ pc' = "send_close" /\ "mq_send EAGAIN" \in err')]_vars
  /\ []((cli.command = "send" /\ "mq_send EAGAIN" \in err)
          => /\ pc \in {"send_close", "done"}
             /\ pc = "done" => (status = 1 /\ closes = opens))

C11_Witness ==
  /\ pc = "done" /\ cli.command = "send" /\ cli.n
  /\ "mq_send EAGAIN" \in err /\ status = 1
  /\ exists /\ Len(q) = attr.maxmsg /\ q = sent

\* C12: create on a name whose queue exists fails with EEXIST and ends with
\* exit status 1; the queue keeps its attributes and its messages, and no
\* descriptor is opened.
C12_ExclusiveCreate ==
  [][(cmd_create /\ exists)
      => (UNCHANGED kernel /\ opens' = opens /\ queue' = -1 /\ pc' = "done"
          /\ status' = 1 /\ "mq_open EEXIST" \in err')]_vars

C12_Witness ==
  /\ pc = "done" /\ cli.command = "create" /\ "mq_open EEXIST" \in err
  /\ status = 1 /\ exists /\ q # <<>> /\ attr.maxmsg # cli.m

KnownCommands == {"create", "info", "unlink", "send", "recv"}

\* C13: a process whose command word is none of create, info, unlink, send,
\* recv has opened no queue and ends with an exit status that is not 0.
C13_UnknownCommandFails ==
  (pc = "done" /\ cli.command \notin KnownCommands) => (opens = 0 /\ status # 0)

\* C14: a poll that returns without error and with anything but exactly
\* POLLIN on the one descriptor (no descriptor ready, POLLIN absent, or
\* another flag set, alone or with POLLIN) makes the loop leave at once: the
\* next step is mq_close, not mq_receive and not another poll.
C14_UnexpectedWakeEnds ==
  [][(follow_poll /\ rv' # -1 /\ ~(rv' = 1 /\ revents' = {"POLLIN"}))
      => pc' = "follow_close"]_vars

\* C15: a poll that fails (returns -1) makes the loop leave: the next step
\* is mq_close, poll is not called again.
C15_FailedWaitEnds ==
  [][(follow_poll /\ rv' = -1) => pc' = "follow_close"]_vars

\* C16: a mq_receive of the follow loop that fails takes nothing from the
\* queue and leaves standard output as it is; the next step is mq_close,
\* neither poll nor mq_receive is called again; the process ends with its
\* handle closed.
C16_FailedReceiveEnds ==
  /\ [][(follow_receive /\ n' = -1)
          => (pc' = "follow_close" /\ q' = q /\ out' = out
              /\ stdoutBuf' = stdoutBuf /\ handed' = handed)]_vars
  /\ []((cli.f /\ n = -1) => pc \in {"follow_close", "done"})
  /\ []((cli.f /\ n = -1 /\ pc = "done") => (closes = opens /\ status = 1))

C16_Witness ==
  /\ pc = "done" /\ cli.f /\ n = -1 /\ "mq_receive EAGAIN" \in err
  /\ Len(handed) = 1 /\ Len(sent) = 2 /\ closes = 1

\* what mq_receive can do for the follow loop, by the flags of the handle
ReceiveResults(fl) ==
  (IF q # <<>> THEN {"message"} ELSE {})
  \cup (IF ReceiveFailsWith(fl) THEN {ReceiveErrnoWith(fl)} ELSE {})
  \cup (IF q = <<>> /\ "O_NONBLOCK" \notin fl THEN {"waits"} ELSE {})

\* C17: whenever the follow loop is about to call mq_receive, what the call
\* can do (hand over a message, fail and end the loop, wait) is the same
\* for a handle opened blocking and for one opened non-blocking.
C17_SameInBothModes ==
  (cli.f /\ pc = "follow_receive")
    => ReceiveResults(ReadFlags([blocking |-> TRUE]))
         = ReceiveResults(ReadFlags([blocking |-> FALSE]))

\* C18: a follow-mode process that has ended has exit status 1, and the
\* follow loop is left (towards mq_close or by the end of the process) only
\* after a system call of the process has failed, however many messages
\* it has emitted and also when the queue has stayed empty.
C18_NoCleanExit ==
  /\ (cli.f /\ pc = "done") => status = 1
  /\ (cli.f /\ pc \in {"follow_close", "done"}) => failed
  /\ (cli.f /\ ~failed /\ pc # "idle")
       => pc \in {"follow_open", "follow_getattr", "follow_poll", "follow_receive",
                  "write_msg", "write_delim"}

C18_Witness ==
  /\ pc = "done" /\ cli.f /\ status = 1 /\ failed
  /\ "poll revents != POLLIN" \in err
  /\ Len(handed) = FollowSends /\ q = <<>> /\ closes = opens

\* the arrows of the loop: a wait is followed by a receive or by the end of
\* the loop, a receive by the Framer or by the end of the loop, the Framer
\* by the next wait or by the end of the process
C19_Moves ==
  [][/\ follow_poll => pc' \in {"follow_receive", "follow_close"}
     /\ follow_receive => pc' \in {"write_msg", "follow_close"}
     /\ (cli.f /\ write_msg) => pc' \in {"write_msg", "write_delim", "done"}
     /\ (cli.f /\ write_delim) => pc' \in {"follow_poll", "done"}
     /\ follow_close => pc' = "done"]_vars

\* mq_receive is reached only from a poll that returned 1 with POLLIN set,
\* and each mq_receive uses up its wake
C19_OwnWake ==
  [][/\ (pc' = "follow_receive" /\ pc # "follow_receive")
          => (follow_poll /\ rv' = 1 /\ "POLLIN" \in revents')
     /\ follow_receive => pc' # "follow_receive"]_vars

\* a successful mq_receive hands its payload to the Framer, and the next
\* wait starts only when the Framer has returned
C19_OneEmit ==
  [][/\ (follow_receive /\ n' >= 0)
          => (pc' = "write_msg" /\ buffer' = Head(q).payload
              /\ messageRemainingBytes' = Len(buffer') /\ handed' = Append(handed, Head(q)))
     /\ (pc' = "follow_poll" /\ pc \notin {"follow_poll", "follow_getattr"})
          => (write_delim /\ handed' = handed)]_vars

\* mq_getattr and malloc run once, between mq_open and the first poll
C19_AttrOnce ==
  [][/\ follow_getattr => (rv = 0 /\ revents = {} /\ handed = <<>>)
     /\ (pc' = "follow_getattr" /\ pc # "follow_getattr") => pc = "follow_open"
     /\ (pc' = "follow_open" /\ pc # "follow_open") => pc = "idle"]_vars

\* C19: the follow loop moves only from the wait to the receive, from the
\* receive to the Framer and from the Framer to the next wait, or out of
\* the loop; every mq_receive follows its own poll that reported POLLIN,
\* every message received goes once to the Framer before the next poll, and
\* mq_getattr runs once, before the first poll.
C19_StateOrder == C19_Moves /\ C19_OwnWake /\ C19_OneEmit /\ C19_AttrOnce

\* C20: in the payload loop of write_msg_with_delimiter the count of bytes
\* that remain stays between 0 and the payload length, and every write
\* made while bytes remain, unless it ends the process, leaves fewer bytes
\* than before, so that the loop ends after at most sz writes.
C20_FramerTerminates ==
  /\ [](pc = "write_msg" => messageRemainingBytes \in 0..Len(buffer))
  /\ [][(write_msg /\ messageRemainingBytes > 0 /\ pc' # "done")
          => messageRemainingBytes' < messageRemainingBytes]_vars

====
